---- MODULE Spec2Model ----
(***************************************************************************)
(* The symptom-triage chatbot: the web chat handler of app.py with its     *)
(* cookie session, and the helpers of utils.py it calls.                   *)
(*                                                                         *)
(* Text is a sequence of one-character strings, so that strip, lower,      *)
(* replace, split and the substring test act on characters as Python's do. *)
(* Probabilities are integers in thousandths (0.6 is 600).                 *)
(***************************************************************************)
EXTENDS Integers, Sequences, FiniteSets, TLC

VARIABLES
    cookie,     \* the session as the browser's signed cookie holds it
    age,        \* minutes since the cookie was signed (last modifying request)
    idle,       \* minutes since the last chat turn
    message,    \* the "message" field of the last POST /chat
    reply,      \* the reply of the last request
    invoked,    \* the calls of model.predict_proba in the last request
    fn_tokens,  \* a token list handed to the helpers of utils.py
    fn_out,     \* what the helper returned for fn_tokens
    artifacts,  \* the pickle files that exist when the process starts
    startup     \* how far the import of app.py got, and what it loaded

vars ==
    <<cookie, age, idle, message, reply, invoked, fn_tokens, fn_out,
      artifacts, startup>>

(***************************************************************************)
(* Literals of the source.                                                 *)
(***************************************************************************)

\* utils.SYMPTOMS, in its order
SYMPTOMS ==
    << <<"f","e","v","e","r">>,
       <<"c","o","u","g","h">>,
       <<"s","o","r","e","_","t","h","r","o","a","t">>,
       <<"r","u","n","n","y","_","n","o","s","e">>,
       <<"h","e","a","d","a","c","h","e">>,
       <<"f","a","t","i","g","u","e">>,
       <<"n","a","u","s","e","a">>,
       <<"v","o","m","i","t","i","n","g">>,
       <<"d","i","a","r","r","h","e","a">>,
       <<"a","b","d","o","m","i","n","a","l","_","p","a","i","n">>,
       <<"c","h","e","s","t","_","p","a","i","n">>,
       <<"s","h","o","r","t","n","e","s","s","_","o","f","_","b","r","e","a","t","h">>,
       <<"d","i","z","z","i","n","e","s","s">>,
       <<"l","e","g","_","s","w","e","l","l","i","n","g">>,
       <<"b","l","e","e","d","i","n","g">>,
       <<"r","a","s","h">>,
       <<"j","o","i","n","t","_","p","a","i","n">>,
       <<"l","o","s","s","_","o","f","_","s","m","e","l","l">>,
       <<"l","o","s","s","_","o","f","_","t","a","s","t","e">>,
       <<"s","o","r","e","_","e","y","e","s">> >>

\* the direct critical terms of emergency_check
emergency_terms ==
    { <<"c","a","r","d","i","a","c","_","a","r","r","e","s","t">>,
       <<"h","e","a","r","t","_","a","t","t","a","c","k">>,
       <<"s","t","r","o","k","e">>,
       <<"s","e","v","e","r","e","_","b","l","e","e","d","i","n","g">>,
       <<"u","n","c","o","n","s","c","i","o","u","s">>,
       <<"l","o","s","s","_","o","f","_","c","o","n","s","c","i","o","u","s","n","e","s","s">>,
       <<"d","i","f","f","i","c","u","l","t","y","_","b","r","e","a","t","h","i","n","g">>,
       <<"s","e","v","e","r","e","_","c","h","e","s","t","_","p","a","i","n">> }

\* thank, thanks, thankyou, bye, goodbye, see you, take care
farewell_words ==
    { <<"t","h","a","n","k">>,
       <<"t","h","a","n","k","s">>,
       <<"t","h","a","n","k","y","o","u">>,
       <<"b","y","e">>,
       <<"g","o","o","d","b","y","e">>,
       <<"s","e","e"," ","y","o","u">>,
       <<"t","a","k","e"," ","c","a","r","e">> }

\* hi, hello, hey, start, good morning, good evening
greeting_words ==
    { <<"h","i">>,
       <<"h","e","l","l","o">>,
       <<"h","e","y">>,
       <<"s","t","a","r","t">>,
       <<"g","o","o","d"," ","m","o","r","n","i","n","g">>,
       <<"g","o","o","d"," ","e","v","e","n","i","n","g">> }

\* exit, quit
exit_words ==
    { <<"e","x","i","t">>,
       <<"q","u","i","t">> }

\* no, none, nothing, not really, i'm fine (U+2019 apostrophe), i am fine, feeling good, nothing serious
negation_words ==
    { <<"n","o">>,
       <<"n","o","n","e">>,
       <<"n","o","t","h","i","n","g">>,
       <<"n","o","t"," ","r","e","a","l","l","y">>,
       <<"i","U+2019","m"," ","f","i","n","e">>,
       <<"i"," ","a","m"," ","f","i","n","e">>,
       <<"f","e","e","l","i","n","g"," ","g","o","o","d">>,
       <<"n","o","t","h","i","n","g"," ","s","e","r","i","o","u","s">> }

\* yes, y, yeah, sure, ok, okay, of course, please, yes please
yes_words ==
    { <<"y","e","s">>,
       <<"y">>,
       <<"y","e","a","h">>,
       <<"s","u","r","e">>,
       <<"o","k">>,
       <<"o","k","a","y">>,
       <<"o","f"," ","c","o","u","r","s","e">>,
       <<"p","l","e","a","s","e">>,
       <<"y","e","s"," ","p","l","e","a","s","e">> }

\* no, n, nope, not now
no_words ==
    { <<"n","o">>,
       <<"n">>,
       <<"n","o","p","e">>,
       <<"n","o","t"," ","n","o","w">> }

\* yes, y, sure, ok, okay
more_yes_words ==
    { <<"y","e","s">>,
       <<"y">>,
       <<"s","u","r","e">>,
       <<"o","k">>,
       <<"o","k","a","y">> }

\* "list"
list_command == <<"l","i","s","t">>

\* "fever"
fever == <<"f","e","v","e","r">>

\* "leg_swelling"
leg_swelling == <<"l","e","g","_","s","w","e","l","l","i","n","g">>

\* "chest_pain"
chest_pain == <<"c","h","e","s","t","_","p","a","i","n">>

\* "shortness_of_breath"
shortness_of_breath == <<"s","h","o","r","t","n","e","s","s","_","o","f","_","b","r","e","a","t","h">>

\* "dizziness"
dizziness == <<"d","i","z","z","i","n","e","s","s">>

\* "chest_pain + shortness_of_breath"
compound_term == <<"c","h","e","s","t","_","p","a","i","n"," ","+"," ","s","h","o","r","t","n","e","s","s","_","o","f","_","b","r","e","a","t","h">>

\* ", "
separator == <<","," ">>


(***************************************************************************)
(* The messages a user sends.                                              *)
(***************************************************************************)

\* "  "
msg_blank == <<" "," ">>

\* "Hi"
msg_hi == <<"H","i">>

\* "ok thanks"
msg_thanks == <<"o","k"," ","t","h","a","n","k","s">>

\* "exit"
msg_exit == <<"e","x","i","t">>

\* "list"
msg_list == <<"l","i","s","t">>

\* "no"
msg_no == <<"n","o">>

\* "I have fever and cough"
msg_fever_cough == <<"I"," ","h","a","v","e"," ","f","e","v","e","r"," ","a","n","d"," ","c","o","u","g","h">>

\* "2 days"
msg_2_days == <<"2"," ","d","a","y","s">>

\* "7"
msg_7 == <<"7">>

\* "chest pain and dizziness"
msg_chest_pain_dizziness == <<"c","h","e","s","t"," ","p","a","i","n"," ","a","n","d"," ","d","i","z","z","i","n","e","s","s">>

\* "stroke"
msg_stroke == <<"s","t","r","o","k","e">>

\* "heart_attack fever"
msg_heart_attack_fever == <<"h","e","a","r","t","_","a","t","t","a","c","k"," ","f","e","v","e","r">>

\* "chest_pain, dizziness"
msg_compound == <<"c","h","e","s","t","_","p","a","i","n",","," ","d","i","z","z","i","n","e","s","s">>

\* "cough, cough. headache"
msg_cough_headache == <<"c","o","u","g","h",","," ","c","o","u","g","h","."," ","h","e","a","d","a","c","h","e">>

\* "leg_swelling fever"
msg_leg_fever == <<"l","e","g","_","s","w","e","l","l","i","n","g"," ","f","e","v","e","r">>

\* "no, okay"
msg_no_okay == <<"n","o",","," ","o","k","a","y">>

\* "fever.cough"
msg_fever_dot_cough == <<"f","e","v","e","r",".","c","o","u","g","h">>

Messages ==
    {msg_no_okay,
     msg_fever_dot_cough,
     msg_blank,
     msg_hi,
     msg_thanks,
     msg_exit,
     msg_list,
     msg_no,
     msg_fever_cough,
     msg_2_days,
     msg_7,
     msg_chest_pain_dizziness,
     msg_stroke,
     msg_heart_attack_fever,
     msg_compound,
     msg_cough_headache,
     msg_leg_fever}

(***************************************************************************)
(* Python's string operations, on sequences of characters.                 *)
(***************************************************************************)
Whitespace == {" ", "\t", "\n", "\r"}

UpperCase == <<"A","B","C","D","E","F","G","H","I","J","K","L","M",
               "N","O","P","Q","R","S","T","U","V","W","X","Y","Z">>
LowerCase == <<"a","b","c","d","e","f","g","h","i","j","k","l","m",
               "n","o","p","q","r","s","t","u","v","w","x","y","z">>

\* str.lower()
lower(text) ==
    [i \in 1..Len(text) |->
        IF \E k \in 1..Len(UpperCase) : UpperCase[k] = text[i]
        THEN LowerCase[CHOOSE k \in 1..Len(UpperCase) : UpperCase[k] = text[i]]
        ELSE text[i]]

RECURSIVE lstrip(_)
lstrip(text) ==
    IF text # <<>> /\ Head(text) \in Whitespace THEN lstrip(Tail(text)) ELSE text

RECURSIVE rstrip(_)
rstrip(text) ==
    IF text # <<>> /\ text[Len(text)] \in Whitespace
    THEN rstrip(SubSeq(text, 1, Len(text) - 1))
    ELSE text

\* str.strip()
strip(text) == rstrip(lstrip(text))

\* str.replace(old, new) for a one-character old
RECURSIVE replace(_, _, _)
replace(text, old, new) ==
    IF text = <<>> THEN <<>>
    ELSE (IF Head(text) = old THEN new ELSE <<Head(text)>>)
         \o replace(Tail(text), old, new)

\* str.split() without arguments: runs of whitespace separate, no empty words
RECURSIVE split(_)
split(text) ==
    LET t == lstrip(text)
    IN  IF t = <<>> THEN <<>>
        ELSE LET stops == {i \in 1..Len(t) : t[i] \in Whitespace}
                 n == IF stops = {} THEN Len(t) + 1
                      ELSE CHOOSE i \in stops : \A j \in stops : i <= j
             IN  <<SubSeq(t, 1, n - 1)>> \o split(SubSeq(t, n, Len(t)))

\* sub in text, for strings
contains(text, sub) ==
    \E i \in 0..(Len(text) - Len(sub)) : SubSeq(text, i + 1, i + Len(sub)) = sub

\* any(word in text for word in words)
any_in(words, text) == \E word \in words : contains(text, word)

\* x in list
member(x, list) == \E i \in 1..Len(list) : list[i] = x

\* sep.join(list), as the pieces in order
RECURSIVE join(_, _)
join(sep, list) ==
    IF list = <<>> THEN <<>>
    ELSE IF Len(list) = 1 THEN <<Head(list)>>
    ELSE <<Head(list), sep>> \o join(sep, Tail(list))

(***************************************************************************)
(* utils.py                                                                *)
(***************************************************************************)
None == <<>>

\* a vector that counts the occurrences of each symptom
vectorize_symptoms_counts(tokens) ==
    [i \in 1..Len(SYMPTOMS) |->
        Cardinality({j \in 1..Len(tokens) : tokens[j] = SYMPTOMS[i]})]

\* vectorize_symptoms: tokset = set(tokens); [1 if s in tokset else 0 ...]
vectorize_symptoms(tokens) ==
    LET tokset == {tokens[j] : j \in 1..Len(tokens)}
    IN  [i \in 1..Len(SYMPTOMS) |-> IF SYMPTOMS[i] \in tokset THEN 1 ELSE 0]

\* load_model with os.path.exists(model_path) and os.path.exists(le_path)
\* joined by "and" instead of "or": it loads what exists
load_model_either(exists, model_path, le_path) ==
    IF model_path \notin exists /\ le_path \notin exists
    THEN [raised |-> TRUE, value |-> <<>>]
    ELSE [raised |-> FALSE,
          value |-> SelectSeq(<<model_path, le_path>>, LAMBDA f : f \in exists)]

\* load_model: FileNotFoundError when one of the two files does not exist,
\* else the two unpickled objects, named here by their files
load_model(exists, model_path, le_path) ==
    IF model_path \notin exists \/ le_path \notin exists
    THEN [raised |-> TRUE, value |-> <<>>]
    ELSE [raised |-> FALSE, value |-> <<model_path, le_path>>]

\* app.py: MODEL_PATH, LE_PATH (the file names)
MODEL_PATH == "model.pkl"

LE_PATH == "label_encoder.pkl"

\* the loop "for t in tokens: if t in emergency_terms: return True, t":
\* <<t>> for the first hit, <<>> when the loop ends without one
RECURSIVE first_emergency_term(_)
first_emergency_term(tokens) ==
    IF tokens = <<>> THEN <<>>
    ELSE IF Head(tokens) \in emergency_terms THEN <<Head(tokens)>>
    ELSE first_emergency_term(Tail(tokens))

\* A faulty emergency_check, for C4: the compound rule is tried first.
emergency_check_compound_first(tokens) ==
    IF member(chest_pain, tokens)
       /\ (member(shortness_of_breath, tokens) \/ member(dizziness, tokens))
    THEN [emergency |-> TRUE, matched_term |-> compound_term]
    ELSE IF first_emergency_term(tokens) # <<>>
    THEN [emergency |-> TRUE, matched_term |-> first_emergency_term(tokens)[1]]
    ELSE [emergency |-> FALSE, matched_term |-> None]

emergency_check(tokens) ==
    LET hit == first_emergency_term(tokens)
    IN  IF hit # <<>>
        THEN [emergency |-> TRUE, matched_term |-> hit[1]]
        ELSE IF member(chest_pain, tokens)
                /\ (member(shortness_of_breath, tokens) \/ member(dizziness, tokens))
        THEN [emergency |-> TRUE, matched_term |-> compound_term]
        ELSE [emergency |-> FALSE, matched_term |-> None]

(***************************************************************************)
(* The classifier and the label encoder, loaded from the pickles that      *)
(* train_model.py writes.                                                  *)
(***************************************************************************)
\* le.classes_: the DISEASES of train_model.py in LabelEncoder's sorted order
classes_ ==
    <<"Allergic Reaction", "COVID-19", "Common Cold", "Conjunctivitis",
      "Deep Vein Thrombosis", "Gastroenteritis", "Hypertension Emergency",
      "Influenza", "Migraine", "Myocardial Infarction">>

NumClasses == Len(classes_)

\* The forest is bounded to NumTrees trees, each voting for one of the last
\* MaxVoted classes; a class's probability is its share of the votes.
NumTrees == 2
MaxVoted == 2

Unit == 1000 \div NumTrees

ProbaOf(votes) ==
    [c \in 1..NumClasses |->
        Unit * Cardinality({t \in 1..NumTrees : votes[t] = c})]

\* what model.predict_proba([vec])[0] can return
ProbaSet ==
    {ProbaOf(votes) :
        votes \in [1..NumTrees -> (NumClasses - MaxVoted + 1)..NumClasses]}

\* a descending sort that puts the later of two equal probabilities first
sorted_desc_unstable(pairs) ==
    [j \in 1..Len(pairs) |->
        CHOOSE x \in {pairs[i] : i \in 1..Len(pairs)} :
            Cardinality({y \in {pairs[i] : i \in 1..Len(pairs)} :
                            y[2] > x[2] \/ (y[2] = x[2] /\ y[1] > x[1])}) = j - 1]

\* sorted(list(enumerate(proba)), key=lambda x: x[1], reverse=True):
\* a stable sort, so equal probabilities keep their enumeration order
RECURSIVE sorted_desc(_)
sorted_desc(pairs) ==
    IF pairs = <<>> THEN <<>>
    ELSE LET n    == Len(pairs)
             done == sorted_desc(SubSeq(pairs, 1, n - 1))
             x    == pairs[n]
             k    == Cardinality({i \in 1..Len(done) : done[i][2] >= x[2]})
         IN  SubSeq(done, 1, k) \o <<x>> \o SubSeq(done, k + 1, Len(done))

\* [:3]
TopK == 3
take(list, k) == SubSeq(list, 1, IF Len(list) < k THEN Len(list) ELSE k)

\* topk = sorted(...)[:3]; preds = [(le.inverse_transform([i])[0], p) ...]
\* (class indices are 1-based here, 0-based in the source)
classifier_preds(proba) ==
    LET topk == take(sorted_desc([i \in 1..Len(proba) |-> <<i, proba[i]>>]), TopK)
    IN  [j \in 1..Len(topk) |-> <<classes_[topk[j][1]], topk[j][2]>>]

\* the fixed predictions of the fever rule
fever_preds == << <<"Common Cold", 600>>, <<"Influenza", 300>>, <<"COVID-19", 100>> >>

\* the percentage without the factor 100
percent_unscaled(p) == <<p \div 1000, (p \div 100) % 10>>

\* f"{p*100:.1f}": the percentage as <<whole, tenth>>
percent(p) == <<p \div 10, p % 10>>

(***************************************************************************)
(* The Flask session: a dict of the keys step, tokens, duration,           *)
(* severity and preds, each present or not.                                *)
(***************************************************************************)
EmptySession == [k \in {} |-> None]

\* session.get(key, default)
get(session, key, default) ==
    IF key \in DOMAIN session THEN session[key] ELSE default

\* session[key] = value
set(session, key, value) ==
    [k \in DOMAIN session \cup {key} |-> IF k = key THEN value ELSE session[k]]

Reply(kind, term, items) == [kind |-> kind, term |-> term, items |-> items]

Result(session, modified, r, calls) ==
    [session |-> session, modified |-> modified, reply |-> r, invoked |-> calls]

\* user_input = request.json.get("message", "").strip().lower()
normalize(msg) == lower(strip(msg))

\* the symptom extraction of the Symptom step
extract(user_input) ==
    LET words   == split(replace(replace(user_input, ",", <<" ">>), ".", <<>>))
        kept    == SelectSeq(words, LAMBDA w : strip(w) # <<>>)
        tokens  == [i \in 1..Len(kept) |-> replace(strip(kept[i]), " ", <<"_">>)]
    IN  SelectSeq(tokens, LAMBDA t : member(t, SYMPTOMS))

(***************************************************************************)
(* What chat() computes from the message alone is the same at every turn:  *)
(* it is evaluated once for each message a user sends and looked up.       *)
(***************************************************************************)
UserInputs == {normalize(m) : m \in Messages}

Normalized == [m \in Messages |-> normalize(m)]
Extracted == [u \in UserInputs |-> extract(u)]
Farewell == [u \in UserInputs |-> any_in(farewell_words, u)]
Yes == [u \in UserInputs |-> any_in(yes_words, u)]
No == [u \in UserInputs |-> any_in(no_words, u)]
MoreYes == [u \in UserInputs |-> any_in(more_yes_words, u)]

user_input_of(msg) == IF msg \in Messages THEN Normalized[msg] ELSE normalize(msg)
matched_in(u) == IF u \in UserInputs THEN Extracted[u] ELSE extract(u)
says_farewell(u) == IF u \in UserInputs THEN Farewell[u] ELSE any_in(farewell_words, u)
says_yes(u) == IF u \in UserInputs THEN Yes[u] ELSE any_in(yes_words, u)
says_no(u) == IF u \in UserInputs THEN No[u] ELSE any_in(no_words, u)
says_more_yes(u) == IF u \in UserInputs THEN MoreYes[u] ELSE any_in(more_yes_words, u)

\* ", ".join(SYMPTOMS)
symptom_list == join(separator, SYMPTOMS)

(***************************************************************************)
(* app.py: the steps of chat().  Each returns the session as the step      *)
(* leaves it, whether the step wrote to it, the reply, and its calls of    *)
(* model.predict_proba: the vector passed and the probabilities returned.  *)
(***************************************************************************)

\* a Symptom step that appends the matched tokens to the stored ones
symptom_step_appends(session, user_input) ==
    IF user_input \in negation_words
    THEN Result(EmptySession, TRUE, Reply("no_symptoms", None, <<>>), <<>>)
    ELSE LET matched == matched_in(user_input)
             check   == emergency_check(matched)
         IN  IF matched = <<>>
             THEN Result(session, FALSE, Reply("not_recognized", None, <<>>), <<>>)
             ELSE IF check.emergency
             THEN Result(session, FALSE,
                         Reply("emergency", check.matched_term, <<>>), <<>>)
             ELSE Result(set(set(session, "tokens",
                                 get(session, "tokens", <<>>) \o matched),
                             "step", "duration"),
                         TRUE, Reply("ask_duration", None, <<>>), <<>>)

\* a Symptom step without the emergency check
symptom_step_unchecked(session, user_input) ==
    IF user_input \in negation_words
    THEN Result(EmptySession, TRUE, Reply("no_symptoms", None, <<>>), <<>>)
    ELSE LET matched == matched_in(user_input)
         IN  IF matched = <<>>
             THEN Result(session, FALSE, Reply("not_recognized", None, <<>>), <<>>)
             ELSE Result(set(set(session, "tokens", matched), "step", "duration"),
                         TRUE, Reply("ask_duration", None, <<>>), <<>>)

\* a Symptom step that clears the session when it answers an emergency
symptom_step_emergency_clears(session, user_input) ==
    IF user_input \in negation_words
    THEN Result(EmptySession, TRUE, Reply("no_symptoms", None, <<>>), <<>>)
    ELSE LET matched == matched_in(user_input)
             check   == emergency_check(matched)
         IN  IF matched = <<>>
             THEN Result(session, FALSE, Reply("not_recognized", None, <<>>), <<>>)
             ELSE IF check.emergency
             THEN Result(EmptySession, TRUE,
                         Reply("emergency", check.matched_term, <<>>), <<>>)
             ELSE Result(set(set(session, "tokens", matched), "step", "duration"),
                         TRUE, Reply("ask_duration", None, <<>>), <<>>)

\* a Symptom step that clears the session when it recognizes no symptom
symptom_step_clears(session, user_input) ==
    IF user_input \in negation_words
    THEN Result(EmptySession, TRUE, Reply("no_symptoms", None, <<>>), <<>>)
    ELSE LET matched == matched_in(user_input)
             check   == emergency_check(matched)
         IN  IF matched = <<>>
             THEN Result(EmptySession, TRUE, Reply("not_recognized", None, <<>>), <<>>)
             ELSE IF check.emergency
             THEN Result(session, FALSE,
                         Reply("emergency", check.matched_term, <<>>), <<>>)
             ELSE Result(set(set(session, "tokens", matched), "step", "duration"),
                         TRUE, Reply("ask_duration", None, <<>>), <<>>)

\* Step 1: step == "symptom"
symptom_step(session, user_input) ==
    IF user_input \in negation_words
    THEN Result(EmptySession, TRUE, Reply("no_symptoms", None, <<>>), <<>>)
    ELSE LET matched == matched_in(user_input)
             check   == emergency_check(matched)
         IN  IF matched = <<>>
             THEN Result(session, FALSE, Reply("not_recognized", None, <<>>), <<>>)
             ELSE IF check.emergency
             THEN Result(session, FALSE,
                         Reply("emergency", check.matched_term, <<>>), <<>>)
             ELSE Result(set(set(session, "tokens", matched), "step", "duration"),
                         TRUE, Reply("ask_duration", None, <<>>), <<>>)

\* a Duration step that starts from an empty session
duration_step_forgets(session, user_input) ==
    Result(set(set(EmptySession, "duration", user_input), "step", "severity"),
           TRUE, Reply("ask_severity", None, <<>>), <<>>)

\* a Duration step that skips the Severity step
duration_step_skips(session, user_input) ==
    Result(set(set(session, "duration", user_input), "step", "ask_recommendations"),
           TRUE, Reply("ask_severity", None, <<>>), <<>>)

\* Step 2: step == "duration"
duration_step(session, user_input) ==
    Result(set(set(session, "duration", user_input), "step", "severity"),
           TRUE, Reply("ask_severity", None, <<>>), <<>>)

\* A faulty fever rule, for C3: it asks for fever and nothing else.
fever_rule_fever_alone(tokens) == tokens = <<fever>>

\* "fever" in tokens and "leg_swelling" not in tokens
fever_rule(tokens) == member(fever, tokens) /\ ~member(leg_swelling, tokens)

\* Step 3: step == "severity".  session["tokens"] raises KeyError when the
\* key is missing, after session["severity"] was written.
severity_step(session, user_input, proba) ==
    LET stored == set(session, "severity", user_input)
    IN  IF "tokens" \notin DOMAIN stored
        THEN Result(stored, TRUE, Reply("error", None, <<>>), <<>>)
        ELSE LET tokens == stored["tokens"]
                 vec    == vectorize_symptoms(tokens)
                 preds  == IF fever_rule(tokens) THEN fever_preds
                           ELSE classifier_preds(proba)
                 lines  == [j \in 1..Len(preds) |->
                               <<preds[j][1], percent(preds[j][2])>>]
             IN  Result(set(set(stored, "preds", preds),
                            "step", "ask_recommendations"),
                        TRUE, Reply("predictions", None, lines),
                        IF fever_rule(tokens) THEN <<>>
                        ELSE <<[vec |-> vec, proba |-> proba]>>)

\* an AskRecommendations step that tests the no-words first
ask_recommendations_step_no_first(session, user_input) ==
    IF says_no(user_input)
    THEN Result(set(session, "step", "more_symptoms"), TRUE,
                Reply("no_recommendations", None, <<>>), <<>>)
    ELSE IF says_yes(user_input)
    THEN LET preds == get(session, "preds", <<>>)
         IN  Result(set(session, "step", "more_symptoms"), TRUE,
                    Reply("recommendations", None,
                          [j \in 1..Len(preds) |-> preds[j][1]]), <<>>)
    ELSE Result(session, FALSE, Reply("yes_or_no", None, <<>>), <<>>)

\* Step 4: step == "ask_recommendations"
ask_recommendations_step(session, user_input) ==
    IF says_yes(user_input)
    THEN LET preds == get(session, "preds", <<>>)
         IN  Result(set(session, "step", "more_symptoms"), TRUE,
                    Reply("recommendations", None,
                          [j \in 1..Len(preds) |-> preds[j][1]]), <<>>)
    ELSE IF says_no(user_input)
    THEN Result(set(session, "step", "more_symptoms"), TRUE,
                Reply("no_recommendations", None, <<>>), <<>>)
    ELSE Result(session, FALSE, Reply("yes_or_no", None, <<>>), <<>>)

\* a MoreSymptoms step that keeps the stored data when it closes
more_symptoms_step_keeps(session, user_input) ==
    IF says_more_yes(user_input)
    THEN Result(set(session, "step", "symptom"), TRUE,
                Reply("ask_symptoms", None, <<>>), <<>>)
    ELSE Result(set(session, "step", "symptom"), TRUE,
                Reply("closing", None, <<>>), <<>>)

\* Step 5: step == "more_symptoms"
more_symptoms_step(session, user_input) ==
    IF says_more_yes(user_input)
    THEN Result(set(session, "step", "symptom"), TRUE,
                Reply("ask_symptoms", None, <<>>), <<>>)
    ELSE Result(EmptySession, TRUE, Reply("closing", None, <<>>), <<>>)

\* POST /chat
chat(session, msg, proba) ==
    LET user_input == user_input_of(msg)
        step       == get(session, "step", "symptom")
    IN  IF user_input = <<>>
        THEN Result(session, FALSE, Reply("describe", None, <<>>), <<>>)
        ELSE IF says_farewell(user_input)
        THEN Result(EmptySession, TRUE, Reply("welcome", None, <<>>), <<>>)
        ELSE IF user_input \in greeting_words
        THEN Result(set(EmptySession, "step", "symptom"), TRUE,
                    Reply("greeting", None, <<>>), <<>>)
        ELSE IF user_input \in exit_words
        THEN Result(EmptySession, TRUE, Reply("goodbye", None, <<>>), <<>>)
        ELSE IF user_input = list_command
        THEN Result(session, FALSE,
                    Reply("list", None, symptom_list), <<>>)
        ELSE IF step = "symptom" THEN symptom_step(session, user_input)
        ELSE IF step = "duration" THEN duration_step(session, user_input)
        ELSE IF step = "severity" THEN severity_step(session, user_input, proba)
        ELSE IF step = "ask_recommendations"
        THEN ask_recommendations_step(session, user_input)
        ELSE IF step = "more_symptoms" THEN more_symptoms_step(session, user_input)
        ELSE Result(session, FALSE, Reply("not_understood", None, <<>>), <<>>)

(***************************************************************************)
(* The cookie session of Flask.  The cookie is signed when a request       *)
(* writes to the session, and a cookie older than                          *)
(* app.permanent_session_lifetime is not accepted: the request then sees   *)
(* an empty session.  Time is counted in minutes, Pace minutes at a time,  *)
(* up to MaxClock.                                                         *)
(***************************************************************************)
Lifetime == 5
MaxClock == 6
Pace == 6

Min(a, b) == IF a < b THEN a ELSE b

\* a session that never expires
open_session_kept == cookie

\* the session a request opens
open_session == IF age > Lifetime THEN EmptySession ELSE cookie

NoProba == <<>>

\* the probabilities the classifier can answer with in this turn
Answers(session, msg) ==
    IF chat(session, msg, CHOOSE p \in ProbaSet : TRUE).invoked = <<>>
    THEN {NoProba}
    ELSE ProbaSet

\* At the symptom step a user sends any of the messages; at the other steps
\* the commands, the short answers and one description of symptoms, and to
\* the question about recommendations also an answer of two minds.
MessagesAt(step) ==
    IF step = "symptom" THEN Messages
    ELSE IF step = "ask_recommendations"
    THEN {msg_blank, msg_hi, msg_thanks, msg_exit, msg_list,
          msg_no, msg_2_days, msg_7, msg_fever_cough, msg_no_okay}
    ELSE {msg_blank, msg_hi, msg_thanks, msg_exit, msg_list,
          msg_no, msg_2_days, msg_7, msg_fever_cough}

NoCall == [fn |-> "none", value |-> None]

Init ==
    /\ cookie = EmptySession
    /\ age = 0
    /\ idle = 0
    /\ message = <<>>
    /\ reply = Reply("none", None, <<>>)
    /\ invoked = <<>>
    /\ fn_tokens = <<>>
    /\ fn_out = NoCall
    /\ artifacts \in SUBSET {MODEL_PATH, LE_PATH}
    /\ startup = [state |-> "importing", value |-> <<>>]

\* model, le = load_model(MODEL_PATH, LE_PATH) at the import of app.py: an
\* exception ends the process before it serves a request
Load ==
    /\ startup.state = "importing"
    /\ startup' =
           LET r == load_model(artifacts, MODEL_PATH, LE_PATH)
           IN  [state |-> IF r.raised THEN "raised" ELSE "loaded", value |-> r.value]
    /\ UNCHANGED <<cookie, age, idle, message, reply, invoked, fn_tokens, fn_out,
                   artifacts>>

\* one POST /chat and the saving of its session
Chat ==
    \E msg \in MessagesAt(get(open_session, "step", "symptom")) :
        /\ startup.state = "loaded"
        /\ message' = msg
        /\ idle' = 0
        /\ \E proba \in Answers(open_session, msg) :
               LET r == chat(open_session, msg, proba)
               IN  /\ reply' = r.reply
                   /\ invoked' = r.invoked
                   /\ cookie' = IF r.modified THEN r.session ELSE cookie
                   /\ age' = IF r.modified THEN 0 ELSE age
        /\ UNCHANGED <<fn_tokens, fn_out, artifacts, startup>>

\* GET /: session.clear() and the page
Index ==
    /\ startup.state = "loaded"
    /\ cookie' = EmptySession
    /\ age' = 0
    /\ reply' = Reply("index", None, <<>>)
    /\ invoked' = <<>>
    /\ UNCHANGED <<idle, message, fn_tokens, fn_out, artifacts, startup>>

\* Pace minutes pass
Tick ==
    /\ startup.state = "loaded"
    /\ age < MaxClock \/ idle < MaxClock
    /\ age' = IF cookie = EmptySession THEN 0 ELSE Min(age + Pace, MaxClock)
    /\ idle' = Min(idle + Pace, MaxClock)
    /\ UNCHANGED <<cookie, message, reply, invoked, fn_tokens, fn_out,
                   artifacts, startup>>

Next == Load \/ Chat \/ Index \/ Tick

Spec == Init /\ [][Next]_vars

(***************************************************************************)
(* The helpers of utils.py applied to token lists, each list handed to one *)
(* call.                                                                   *)
(***************************************************************************)
MaxTokens == 3

heart_attack == <<"h","e","a","r","t","_","a","t","t","a","c","k">>
stroke == <<"s","t","r","o","k","e">>
cough == <<"c","o","u","g","h">>

Tokens ==
    {fever, cough, chest_pain, shortness_of_breath, dizziness, leg_swelling,
     heart_attack, stroke}

TokenLists == UNION {[1..n -> Tokens] : n \in 0..MaxTokens}

InitFn ==
    /\ cookie = EmptySession
    /\ age = 0
    /\ idle = 0
    /\ message = <<>>
    /\ reply = Reply("none", None, <<>>)
    /\ invoked = <<>>
    /\ fn_tokens \in TokenLists
    /\ fn_out = NoCall
    /\ artifacts = {MODEL_PATH, LE_PATH}
    /\ startup = [state |-> "loaded", value |-> <<MODEL_PATH, LE_PATH>>]

CallEmergencyCheck ==
    /\ fn_out = NoCall
    /\ fn_out' = [fn |-> "emergency_check", value |-> emergency_check(fn_tokens)]
    /\ UNCHANGED <<cookie, age, idle, message, reply, invoked, fn_tokens,
                   artifacts, startup>>

CallVectorize ==
    /\ fn_out = NoCall
    /\ fn_out' = [fn |-> "vectorize_symptoms", value |-> vectorize_symptoms(fn_tokens)]
    /\ UNCHANGED <<cookie, age, idle, message, reply, invoked, fn_tokens,
                   artifacts, startup>>

\* str.split(sep) for a one-character sep: empty pieces are kept
RECURSIVE split_on(_, _)
split_on(text, sep) ==
    LET stops == {i \in 1..Len(text) : text[i] = sep}
    IN  IF stops = {} THEN <<text>>
        ELSE LET n == CHOOSE i \in stops : \A j \in stops : i <= j
             IN  <<SubSeq(text, 1, n - 1)>> \o split_on(SubSeq(text, n + 1, Len(text)), sep)

\* the text of a list of pieces
RECURSIVE flatten(_)
flatten(pieces) ==
    IF pieces = <<>> THEN <<>> ELSE Head(pieces) \o flatten(Tail(pieces))

\* main.py: tokens = [t.strip().lower().replace(" ", "_") for t in user.split(",")]
cli_tokens(user) ==
    LET parts == split_on(user, ",")
    IN  [i \in 1..Len(parts) |-> replace(lower(strip(parts[i])), " ", <<"_">>)]

\* main.py: one pass of the loop of chat_loop, from the input of the
\* symptoms to the predictions
chat_loop_round(line, proba) ==
    LET user == strip(line)
    IN  IF user = <<>>
        THEN [kind |-> "continue", tokens |-> <<>>, term |-> None,
              preds |-> <<>>, invoked |-> <<>>]
        ELSE IF lower(user) \in exit_words
        THEN [kind |-> "break", tokens |-> <<>>, term |-> None,
              preds |-> <<>>, invoked |-> <<>>]
        ELSE IF lower(user) = list_command
        THEN [kind |-> "list", tokens |-> <<>>, term |-> None,
              preds |-> <<>>, invoked |-> <<>>]
        ELSE LET tokens == cli_tokens(user)
                 check  == emergency_check(tokens)
             IN  IF check.emergency
                 THEN [kind |-> "emergency", tokens |-> tokens,
                       term |-> check.matched_term,
                       preds |-> <<>>, invoked |-> <<>>]
                 ELSE [kind |-> "predictions", tokens |-> tokens, term |-> None,
                       preds |-> classifier_preds(proba),
                       invoked |-> <<[vec |-> vectorize_symptoms(tokens),
                                      proba |-> proba]>>]

\* the user of the terminal types the tokens, a comma and a space between
\* neighbours
CallChatLoop ==
    \E proba \in ProbaSet :
        /\ fn_out = NoCall
        /\ fn_out' = [fn |-> "chat_loop",
                      value |-> chat_loop_round(flatten(join(separator, fn_tokens)),
                                                proba)]
        /\ UNCHANGED <<cookie, age, idle, message, reply, invoked, fn_tokens,
                       artifacts, startup>>

NextFn == CallChatLoop \/ CallEmergencyCheck \/ CallVectorize

SpecFn == InitFn /\ [][NextFn]_vars

(***************************************************************************)
(* Properties.  A property of a turn is a property of the steps of Chat:   *)
(* the request opens open_session and reads message', and leaves cookie',  *)
(* reply' and invoked'.                                                    *)
(***************************************************************************)

\* the step a request reads from the session it opened
step_of(session) == get(session, "step", "symptom")

\* the session field by field, a missing key read as None
fields(session) ==
    [keys     |-> DOMAIN session \ {"step"},
     step     |-> step_of(session),
     tokens   |-> get(session, "tokens", None),
     duration |-> get(session, "duration", None),
     severity |-> get(session, "severity", None),
     preds    |-> get(session, "preds", None)]

\* the input is answered before the step is looked at
intercepted(u) ==
    \/ u = <<>>
    \/ says_farewell(u)
    \/ u \in greeting_words
    \/ u \in exit_words
    \/ u = list_command

\* the direct critical terms a message contains
DirectTermsIn == [m \in Messages |-> {t \in emergency_terms : contains(normalize(m), t)}]

\* C1: every Symptom-step turn whose input contains a direct critical term
\* is answered as an emergency naming that term, stores no tokens and stays
\* at the Symptom step.
C1_DirectTermIsEmergency ==
    [][(/\ step_of(open_session) = "symptom"
        /\ message' \in Messages
        /\ DirectTermsIn[message'] # {}
        /\ Chat)
       => /\ reply'.kind = "emergency"
          /\ reply'.term \in DirectTermsIn[message']
          /\ step_of(open_session') = "symptom"
          /\ get(open_session', "tokens", None) = get(open_session, "tokens", None)]_vars

\* C2: at the Symptom step the message "chest pain and dizziness" gets the
\* emergency reply with the term "chest_pain + shortness_of_breath", the step
\* stays Symptom and the turn stores no tokens.
C2_ScenarioB ==
    [][(/\ step_of(open_session) = "symptom"
        /\ message' = msg_chest_pain_dizziness
        /\ Chat)
       => /\ reply'.kind = "emergency"
          /\ reply'.term = compound_term
          /\ step_of(open_session') = "symptom"
          /\ get(open_session', "tokens", None) = get(open_session, "tokens", None)]_vars

\* C3: a Severity turn on stored tokens with fever and without leg_swelling
\* stores and renders Common Cold 0.6, Influenza 0.3, COVID-19 0.1 in that
\* order, and does not call the classifier.
C3_FeverRule ==
    [][(/\ step_of(open_session) = "severity"
        /\ ~intercepted(user_input_of(message'))
        /\ "tokens" \in DOMAIN open_session
        /\ \E i \in 1..Len(open_session["tokens"]) : open_session["tokens"][i] = fever
        /\ \A i \in 1..Len(open_session["tokens"]) :
               open_session["tokens"][i] # leg_swelling
        /\ Chat)
       => /\ "preds" \in DOMAIN cookie'
          /\ cookie'["preds"] =
                << <<"Common Cold", 600>>, <<"Influenza", 300>>, <<"COVID-19", 100>> >>
          /\ reply'.kind = "predictions"
          /\ reply'.items =
                << <<"Common Cold", <<60, 0>> >>, <<"Influenza", <<30, 0>> >>,
                   <<"COVID-19", <<10, 0>> >> >>
          /\ invoked' = <<>>]_vars

\* C3: a Severity turn answered by the fever rule on tokens with more than fever
C3_Witness ==
    /\ reply.kind = "predictions"
    /\ invoked = <<>>
    /\ "tokens" \in DOMAIN cookie
    /\ cookie["tokens"] = <<fever, cough>>
    /\ cookie["preds"] =
          << <<"Common Cold", 600>>, <<"Influenza", 300>>, <<"COVID-19", 100>> >>

\* C4: emergency_check returns the first direct critical term in token
\* order; with none, the compound term when chest_pain comes with
\* shortness_of_breath or dizziness; and (false, None) otherwise.
C4_EmergencyCheck ==
    fn_out.fn = "emergency_check" =>
        LET direct == {i \in 1..Len(fn_tokens) : fn_tokens[i] \in emergency_terms}
            has(t) == \E i \in 1..Len(fn_tokens) : fn_tokens[i] = t
        IN  IF direct # {}
            THEN /\ fn_out.value.emergency = TRUE
                 /\ \E i \in direct :
                        /\ \A j \in direct : i <= j
                        /\ fn_out.value.matched_term = fn_tokens[i]
            ELSE IF has(chest_pain) /\ (has(shortness_of_breath) \/ has(dizziness))
            THEN /\ fn_out.value.emergency = TRUE
                 /\ fn_out.value.matched_term =
                        <<"c","h","e","s","t","_","p","a","i","n"," ","+"," ",
                          "s","h","o","r","t","n","e","s","s","_","o","f","_",
                          "b","r","e","a","t","h">>
            ELSE /\ fn_out.value.emergency = FALSE
                 /\ fn_out.value.matched_term = None

\* C4: a direct term found behind another token and before a second direct term
C4_Witness ==
    /\ fn_out.fn = "emergency_check"
    /\ fn_tokens = <<chest_pain, stroke, heart_attack>>
    /\ fn_out.value.emergency = TRUE
    /\ fn_out.value.matched_term = stroke

\* C4: the compound term, found when no token is a direct term
C4_WitnessCompound ==
    /\ fn_out.fn = "emergency_check"
    /\ fn_tokens = <<dizziness, fever, chest_pain>>
    /\ fn_out.value.matched_term = compound_term

\* the sessions of Scenario A after its first, second and third turn
ScenarioA1 == [step |-> "duration", tokens |-> <<fever, cough>>]

ScenarioA2 ==
    [step |-> "severity", tokens |-> <<fever, cough>>,
     duration |-> <<"2", " ", "d", "a", "y", "s">>]

ScenarioA3 ==
    [step |-> "ask_recommendations", tokens |-> <<fever, cough>>,
     duration |-> <<"2", " ", "d", "a", "y", "s">>, severity |-> <<"7">>,
     preds |-> << <<"Common Cold", 600>>, <<"Influenza", 300>>, <<"COVID-19", 100>> >>]

\* C5: from a fresh session, "I have fever and cough" stores [fever, cough]
\* and moves to Duration, "2 days" moves to Severity, and "7" moves to
\* AskRecommendations with a reply listing Common Cold 60.0%, Influenza
\* 30.0%, COVID-19 10.0%; none of the three is answered by an intercept.
C5_ScenarioA ==
    [][/\ (/\ DOMAIN open_session \subseteq {"step"}
           /\ step_of(open_session) = "symptom"
           /\ message' = msg_fever_cough
           /\ Chat)
          => /\ ~intercepted(user_input_of(message'))
             /\ cookie' = ScenarioA1
             /\ reply'.kind = "ask_duration"
       /\ (/\ open_session = ScenarioA1
           /\ message' = msg_2_days
           /\ Chat)
          => /\ ~intercepted(user_input_of(message'))
             /\ cookie' = ScenarioA2
             /\ reply'.kind = "ask_severity"
       /\ (/\ open_session = ScenarioA2
           /\ message' = msg_7
           /\ Chat)
          => /\ ~intercepted(user_input_of(message'))
             /\ cookie' = ScenarioA3
             /\ reply'.kind = "predictions"
             /\ reply'.items =
                   << <<"Common Cold", <<60, 0>> >>, <<"Influenza", <<30, 0>> >>,
                      <<"COVID-19", <<10, 0>> >> >>]_vars

\* C5: the session and the reply after the third turn of Scenario A
C5_Witness ==
    /\ cookie = ScenarioA3
    /\ message = msg_7
    /\ reply.kind = "predictions"
    /\ reply.items[1] = <<"Common Cold", <<60, 0>> >>

\* the inputs that reset the conversation: the greeting, exit and farewell
\* intercepts at any step, a negation phrase at the Symptom step, and an
\* input without a yes-word at the MoreSymptoms step
resets(session, u) ==
    \/ u # <<>> /\ (says_farewell(u) \/ u \in greeting_words \/ u \in exit_words)
    \/ ~intercepted(u) /\ step_of(session) = "symptom" /\ u \in negation_words
    \/ ~intercepted(u) /\ step_of(session) = "more_symptoms" /\ ~says_more_yes(u)

\* a turn on the session is answered as the first turn of a new conversation
as_new(session) ==
    \A m \in Messages :
        \A p \in Answers(EmptySession, m) :
            /\ chat(session, m, p).reply = chat(EmptySession, m, p).reply
            /\ chat(session, m, p).invoked = chat(EmptySession, m, p).invoked
            /\ fields(chat(session, m, p).session)
                   = fields(chat(EmptySession, m, p).session)

\* the session the greeting intercept leaves, and its next turn
Greeted == [step |-> "symptom"]

GreetedAsNew == as_new(Greeted)

\* C6: at every step a greeting, exit or farewell input is answered by its
\* intercept, and after it, after a negation phrase at the Symptom step and
\* after a non-yes input at the MoreSymptoms step the session holds no
\* tokens, duration, severity or predictions, its step reads Symptom, and
\* the next turn is answered as the first turn of a new conversation.
C6_ResetsClear ==
    [][(/\ resets(open_session, user_input_of(message'))
        /\ Chat)
       => /\ DOMAIN open_session' \subseteq {"step"}
          /\ step_of(open_session') = "symptom"
          /\ intercepted(user_input_of(message'))
                => reply'.kind \in {"welcome", "greeting", "goodbye"}
          /\ \/ open_session' = EmptySession
             \/ open_session' = Greeted /\ GreetedAsNew]_vars

\* C6: a conversation closed at the MoreSymptoms step, after a whole round
C6_Witness ==
    /\ reply.kind = "closing"
    /\ cookie = EmptySession
    /\ idle = 0

\* the pieces of the "list" reply: the vocabulary in its order, a separator
\* between neighbours
is_symptom_list(items) ==
    /\ Len(items) = 2 * Len(SYMPTOMS) - 1
    /\ \A i \in 1..Len(SYMPTOMS) : items[2 * i - 1] = SYMPTOMS[i]
    /\ \A i \in 1..(Len(SYMPTOMS) - 1) : items[2 * i] = <<",", " ">>

\* C7 as claimed: a blank input, "list", or a Symptom-step input with no
\* vocabulary token leaves every field of the session unchanged, and the
\* "list" reply is the vocabulary joined by a separator in its order.
C7_NoChange_AsClaimed ==
    [][(/\ \/ user_input_of(message') = <<>>
           \/ user_input_of(message') = list_command
           \/ /\ ~intercepted(user_input_of(message'))
              /\ step_of(open_session) = "symptom"
              /\ matched_in(user_input_of(message')) = <<>>
        /\ Chat)
       => /\ fields(open_session') = fields(open_session)
          /\ user_input_of(message') = list_command
                => reply'.kind = "list" /\ is_symptom_list(reply'.items)]_vars

\* C7: the same, for a Symptom-step input that is not a negation phrase.
C7_NoChange ==
    [][(/\ \/ user_input_of(message') = <<>>
           \/ user_input_of(message') = list_command
           \/ /\ ~intercepted(user_input_of(message'))
              /\ step_of(open_session) = "symptom"
              /\ user_input_of(message') \notin negation_words
              /\ matched_in(user_input_of(message')) = <<>>
        /\ Chat)
       => /\ fields(open_session') = fields(open_session)
          /\ user_input_of(message') = list_command
                => reply'.kind = "list" /\ is_symptom_list(reply'.items)]_vars

\* C7: an unrecognized input at the Symptom step of a second round, the
\* data of the first round still stored
C7_Witness ==
    /\ reply.kind = "not_recognized"
    /\ idle = 0
    /\ age <= Lifetime
    /\ DOMAIN cookie = {"step", "tokens", "duration", "severity", "preds"}
    /\ cookie["step"] = "symptom"

\* C7: the "list" reply given at the Severity step
C7_WitnessList ==
    /\ reply.kind = "list"
    /\ is_symptom_list(reply.items)
    /\ idle = 0
    /\ age <= Lifetime
    /\ step_of(cookie) = "severity"

\* C8: when more than Lifetime minutes passed since the last turn of a
\* session with stored tokens, the next turn is answered as the first turn
\* of a new conversation: the reply, the classifier calls and the session
\* it leaves are those chat() computes from the empty session, so the step
\* read is Symptom and no earlier token, duration, severity or prediction
\* remains.
C8_IdleExpiry ==
    [][(/\ idle > Lifetime
        /\ "tokens" \in DOMAIN cookie
        /\ Chat)
       => /\ \E p \in Answers(EmptySession, message') :
                 /\ reply' = chat(EmptySession, message', p).reply
                 /\ invoked' = chat(EmptySession, message', p).invoked
                 /\ open_session' = chat(EmptySession, message', p).session
          /\ DOMAIN open_session' \subseteq {"step", "tokens"}
          /\ "tokens" \in DOMAIN open_session'
                => open_session'["tokens"] = matched_in(user_input_of(message'))
          /\ reply'.kind \in {"describe", "welcome", "greeting", "goodbye", "list",
                              "no_symptoms", "not_recognized", "emergency",
                              "ask_duration"}]_vars

\* C8: a turn just answered at the Symptom step although the cookie, signed
\* more than Lifetime minutes ago, stores the Severity step and its tokens
C8_Witness ==
    /\ idle = 0
    /\ age > Lifetime
    /\ reply.kind = "not_recognized"
    /\ "tokens" \in DOMAIN cookie
    /\ cookie["step"] = "severity"

\* C9: the stored predictions are at most 3 pairs in non-increasing order
\* of probability; those of the classifier are the 3 classes of highest
\* probability, of two classes of equal probability the one of lower index
\* first.
C9_PredsOrdered ==
    "preds" \in DOMAIN cookie =>
        LET preds == cookie["preds"]
        IN  /\ Len(preds) <= 3
            /\ \A i, j \in 1..Len(preds) : i < j => preds[i][2] >= preds[j][2]
            /\ invoked # <<>> =>
                   LET proba == invoked[1].proba
                       ahead(c) ==
                           {d \in 1..NumClasses :
                               \/ proba[d] > proba[c]
                               \/ proba[d] = proba[c] /\ d < c}
                   IN  /\ Len(preds) = 3
                       /\ \A j \in 1..3 :
                              \E c \in 1..NumClasses :
                                  /\ Cardinality(ahead(c)) = j - 1
                                  /\ preds[j] = <<classes_[c], proba[c]>>

\* C9: predictions of the classifier with two classes of equal probability
C9_Witness ==
    /\ invoked # <<>>
    /\ "preds" \in DOMAIN cookie
    /\ cookie["preds"][1][2] = cookie["preds"][2][2]
    /\ cookie["preds"][1][2] > 0
    /\ cookie["preds"][1][1] = "Migraine"
    /\ cookie["preds"][2][1] = "Myocardial Infarction"

\* C10: vectorize_symptoms returns a vector as long as the vocabulary, 1 at
\* the positions of the symptoms that occur among the tokens and 0 at the
\* others, whatever the order and the repetitions of the tokens.
C10_Vectorize ==
    fn_out.fn = "vectorize_symptoms" =>
        /\ Len(fn_out.value) = Len(SYMPTOMS)
        /\ \A i \in 1..Len(SYMPTOMS) :
               /\ fn_out.value[i] \in {0, 1}
               /\ fn_out.value[i] = 1
                      <=> \E j \in 1..Len(fn_tokens) : fn_tokens[j] = SYMPTOMS[i]

\* C10: the vector of a repeated symptom after another one
C10_Witness ==
    /\ fn_out.fn = "vectorize_symptoms"
    /\ fn_tokens = <<cough, fever, cough>>
    /\ fn_out.value[1] = 1
    /\ fn_out.value[2] = 1
    /\ \A i \in 3..Len(SYMPTOMS) : fn_out.value[i] = 0

\* C11: when model.pkl or label_encoder.pkl is missing at the start of the
\* process, load_model raises and the process never serves: no chat turn is
\* answered and no session is written; every turn that is answered runs
\* with both objects loaded.
C11_NoTurnWithoutModel ==
    /\ artifacts # {MODEL_PATH, LE_PATH}
           => /\ startup.state \in {"importing", "raised"}
              /\ startup.value = <<>>
              /\ message = <<>>
              /\ reply.kind = "none"
              /\ cookie = EmptySession
    /\ (message # <<>> \/ reply.kind # "none")
           => startup = [state |-> "loaded", value |-> <<MODEL_PATH, LE_PATH>>]

\* C11: the import failed for a missing label encoder
C11_Witness ==
    /\ artifacts = {MODEL_PATH}
    /\ startup.state = "raised"

\* C12: the tokens a session stores are tokens on which emergency_check
\* returns false, and the predictions of a Severity turn, by the fever rule
\* or by the classifier, are made from such tokens, the classifier being
\* called on their vector.
C12_EmergencyBeforePrediction ==
    /\ "tokens" \in DOMAIN cookie => ~emergency_check(cookie["tokens"]).emergency
    /\ reply.kind = "predictions"
           => /\ "tokens" \in DOMAIN cookie
              /\ ~emergency_check(cookie["tokens"]).emergency
              /\ invoked # <<>>
                     => invoked[1].vec = vectorize_symptoms(cookie["tokens"])

\* C12: predictions of the classifier for stored tokens
C12_Witness ==
    /\ reply.kind = "predictions"
    /\ invoked # <<>>
    /\ "tokens" \in DOMAIN cookie
    /\ cookie["tokens"] = <<cough, cough, SYMPTOMS[5]>>

\* the Symptom step answers the input as an emergency
flagged(session, u) ==
    /\ ~intercepted(u)
    /\ step_of(session) = "symptom"
    /\ u \notin negation_words
    /\ emergency_check(matched_in(u)).emergency

\* C13: a Symptom-step turn whose matched tokens emergency_check flags is
\* answered as an emergency and leaves the session as it was, the data of an
\* earlier round included; a turn leaves the Symptom step only on an input
\* with a matched token that is not flagged.
C13_EmergencyStalls ==
    [][/\ (/\ flagged(open_session, user_input_of(message'))
           /\ Chat)
          => /\ reply'.kind = "emergency"
             /\ cookie' = cookie
             /\ fields(open_session') = fields(open_session)
             /\ step_of(open_session') = "symptom"
       /\ (/\ step_of(open_session) = "symptom"
           /\ step_of(open_session') # "symptom"
           /\ Chat)
          => /\ ~intercepted(user_input_of(message'))
             /\ matched_in(user_input_of(message')) # <<>>
             /\ ~emergency_check(matched_in(user_input_of(message'))).emergency
             /\ step_of(open_session') = "duration"]_vars

\* C13: an emergency answered at the Symptom step of a second round, the
\* data of the first round still stored
C13_Witness ==
    /\ reply.kind = "emergency"
    /\ reply.term = compound_term
    /\ idle = 0
    /\ age <= Lifetime
    /\ DOMAIN cookie = {"step", "tokens", "duration", "severity", "preds"}
    /\ cookie["step"] = "symptom"

\* the predictions of the web Severity turn for stored tokens
web_preds(tokens, proba) ==
    severity_step([step |-> "severity", tokens |-> tokens], <<"7">>, proba)
        .session["preds"]

\* C14: chat_loop calls the classifier only for tokens that emergency_check
\* does not flag and to which the fever rule does not apply, and its
\* predictions are those of the web Severity turn for the same tokens.
C14_CliAsWeb ==
    (fn_out.fn = "chat_loop" /\ fn_out.value.kind \in {"emergency", "predictions"})
        => /\ fn_out.value.tokens = fn_tokens
           /\ fn_out.value.invoked # <<>>
                  => /\ ~emergency_check(fn_tokens).emergency
                     /\ ~fever_rule(fn_tokens)
           /\ fn_out.value.kind = "predictions"
                  => \E proba \in ProbaSet :
                         fn_out.value.preds = web_preds(fn_tokens, proba)

\* the changes of step of the transition table
PhaseTable ==
    {<<"symptom", "duration">>, <<"duration", "severity">>,
     <<"severity", "ask_recommendations">>,
     <<"ask_recommendations", "more_symptoms">>, <<"more_symptoms", "symptom">>}

\* C15: a turn that no intercept answers keeps the step, changes it along
\* the transition table, or clears the session.  The Duration step is
\* entered only from a Symptom turn that stores its matched tokens, the
\* Severity step only from a Duration turn on stored tokens, predictions
\* are made and the classifier is called only in a Severity turn, and the
\* "not understood" fallback never answers.
C15_PhaseTable ==
    [][(/\ ~intercepted(user_input_of(message'))
        /\ Chat)
       => /\ \/ step_of(open_session') = step_of(open_session)
             \/ <<step_of(open_session), step_of(open_session')>> \in PhaseTable
             \/ open_session' = EmptySession
          /\ reply'.kind # "not_understood"
          /\ (reply'.kind = "predictions" \/ invoked' # <<>>)
                => /\ step_of(open_session) = "severity"
                   /\ {"tokens", "duration"} \subseteq DOMAIN open_session
                   /\ step_of(open_session') = "ask_recommendations"
          /\ (step_of(open_session') = "severity" /\ step_of(open_session) # "severity")
                => /\ step_of(open_session) = "duration"
                   /\ "tokens" \in DOMAIN open_session
                   /\ open_session'["tokens"] = open_session["tokens"]
          /\ (step_of(open_session') = "duration" /\ step_of(open_session) # "duration")
                => /\ step_of(open_session) = "symptom"
                   /\ open_session'["tokens"] = matched_in(user_input_of(message'))
                   /\ open_session'["tokens"] # <<>>]_vars

\* C15: the table walked once around, back at the Symptom step
C15_Witness ==
    /\ reply.kind = "ask_symptoms"
    /\ idle = 0
    /\ DOMAIN cookie = {"step", "tokens", "duration", "severity", "preds"}
    /\ cookie["step"] = "symptom"

\* C16: at the AskRecommendations step an input that contains a yes-word
\* gets the recommendations for the stored predictions and the step
\* MoreSymptoms, also when it contains a no-word; an input with a no-word
\* and no yes-word gets the step MoreSymptoms and no recommendation; any
\* other input leaves the step.  Tokens, duration, severity and predictions
\* stay as stored.
C16_AskRecommendations ==
    [][(/\ step_of(open_session) = "ask_recommendations"
        /\ ~intercepted(user_input_of(message'))
        /\ Chat)
       => LET u   == user_input_of(message')
              yes == \E w \in yes_words : contains(u, w)
              no  == \E w \in no_words : contains(u, w)
              old == get(open_session, "preds", <<>>)
          IN  /\ yes => /\ step_of(open_session') = "more_symptoms"
                        /\ reply'.kind = "recommendations"
                        /\ reply'.items = [j \in 1..Len(old) |-> old[j][1]]
              /\ (~yes /\ no) => /\ step_of(open_session') = "more_symptoms"
                                  /\ reply'.kind = "no_recommendations"
              /\ (~yes /\ ~no) => /\ step_of(open_session') = "ask_recommendations"
                                   /\ reply'.kind = "yes_or_no"
              /\ ~yes => reply'.items = <<>>
              /\ [fields(open_session') EXCEPT !.step = "-"]
                     = [fields(open_session) EXCEPT !.step = "-"]]_vars

\* C16: recommendations given to an answer with a no-word and a yes-word
C16_Witness ==
    /\ message = msg_no_okay
    /\ reply.kind = "recommendations"
    /\ Len(reply.items) = 3
    /\ cookie["step"] = "more_symptoms"

\* C16: the question asked again
C16_WitnessStay ==
    /\ message = msg_7
    /\ reply.kind = "yes_or_no"
    /\ idle = 0
    /\ age <= Lifetime
    /\ step_of(cookie) = "ask_recommendations"

\* the reference extraction: commas and periods become spaces, the text is
\* split on whitespace, and the words of the vocabulary are kept in their
\* order, duplicates included (the input is already in lower case)
reference_extract(u) ==
    SelectSeq(split(replace(replace(u, ",", <<" ">>), ".", <<" ">>)),
              LAMBDA w : member(w, SYMPTOMS))

Reference == [m \in Messages |-> reference_extract(normalize(m))]

\* C17: the Symptom step works on the tokens of the reference extraction:
\* it does not recognize the input exactly when the reference finds no
\* token, and the tokens it stores are those of the reference.
C17_ExtractionAsReference ==
    [][(/\ step_of(open_session) = "symptom"
        /\ ~intercepted(user_input_of(message'))
        /\ user_input_of(message') \notin negation_words
        /\ Chat)
       => /\ reply'.kind = "not_recognized" <=> Reference[message'] = <<>>
          /\ reply'.kind = "ask_duration"
                => open_session'["tokens"] = Reference[message']]_vars

\* C18: a session at the Duration or Severity step stores a non-empty
\* sequence of vocabulary tokens, one at the AskRecommendations or
\* MoreSymptoms step stores such tokens and 1 to 3 predictions, the step is
\* one of the five, and no Severity turn failed on a missing key.
C18_StepHasData ==
    /\ step_of(cookie) \in {"symptom", "duration", "severity",
                             "ask_recommendations", "more_symptoms"}
    /\ step_of(cookie) # "symptom"
           => /\ "tokens" \in DOMAIN cookie
              /\ cookie["tokens"] # <<>>
              /\ \A i \in 1..Len(cookie["tokens"]) :
                     \E k \in 1..Len(SYMPTOMS) : cookie["tokens"][i] = SYMPTOMS[k]
    /\ step_of(cookie) \in {"ask_recommendations", "more_symptoms"}
           => /\ "preds" \in DOMAIN cookie
              /\ Len(cookie["preds"]) \in 1..3
    /\ reply.kind # "error"

\* C18: a session at the MoreSymptoms step with its tokens and predictions
C18_Witness ==
    /\ step_of(cookie) = "more_symptoms"
    /\ cookie["tokens"] = <<cough, cough, SYMPTOMS[5]>>
    /\ Len(cookie["preds"]) = 3
    /\ reply.kind = "recommendations"

\* C19: a yes at the MoreSymptoms step changes only the step, to Symptom;
\* the next Symptom turn that stores tokens stores its matched tokens in
\* place of the old ones and keeps the old duration, severity and
\* predictions; the Severity turn of the later round applies the fever rule
\* to, and calls the classifier on, the stored tokens of that round only.
C19_RoundsReplaceTokens ==
    [][/\ (/\ step_of(open_session) = "more_symptoms"
           /\ ~intercepted(user_input_of(message'))
           /\ says_more_yes(user_input_of(message'))
           /\ Chat)
          => /\ reply'.kind = "ask_symptoms"
             /\ fields(open_session') = [fields(open_session) EXCEPT !.step = "symptom"]
       /\ (/\ step_of(open_session) = "symptom"
           /\ "preds" \in DOMAIN open_session
           /\ reply'.kind = "ask_duration"
           /\ Chat)
          => /\ open_session'["tokens"] = matched_in(user_input_of(message'))
             /\ [fields(open_session') EXCEPT !.step = "-", !.tokens = <<>>]
                    = [fields(open_session) EXCEPT !.step = "-", !.tokens = <<>>]
       /\ (/\ step_of(open_session) = "severity"
           /\ "preds" \in DOMAIN open_session
           /\ ~intercepted(user_input_of(message'))
           /\ Chat)
          => /\ invoked' = <<>> <=> fever_rule(open_session["tokens"])
             /\ invoked' # <<>>
                    => /\ invoked'[1].vec = vectorize_symptoms(open_session["tokens"])
                       /\ open_session'["preds"] = classifier_preds(invoked'[1].proba)
             /\ invoked' = <<>> => open_session'["preds"] = fever_preds]_vars

\* C19: the tokens of a second round stored in place of the fever and cough
\* of the first, whose predictions are still stored
C19_Witness ==
    /\ reply.kind = "ask_duration"
    /\ message = msg_cough_headache
    /\ cookie["tokens"] = <<cough, cough, SYMPTOMS[5]>>
    /\ "preds" \in DOMAIN cookie
    /\ cookie["preds"] = fever_preds

====
